---- MODULE Spec2Model ----
(***************************************************************************)
(* A model of scripts/sync_garmin.py: the cached-token authentication with *)
(* its classified retry/backoff (authenticate), the nine metric fetchers,  *)
(* the per-day aggregation and file write (sync_day) and the day loop of   *)
(* main.                                                                   *)
(*                                                                         *)
(* Abstractions.  A calendar date is an integer (its ordinal).  A remote   *)
(* response is one of four shapes:                                         *)
(*   "raise"  the client call raises an Exception;                         *)
(*   "empty"  the call returns an empty container ({} or []);              *)
(*   "junk"   the call returns ["x"], a non-empty list of strings, which   *)
(*            is not the shape any fetcher expects;                        *)
(*   "ok"     the call returns the well-formed response with the day's     *)
(*            data.                                                        *)
(* A fragment is the record of its header and its day; a document is the   *)
(* sequence of its sections (the "\n\n" join of sync_day is left implicit).*)
(*                                                                         *)
(* SpecFetch calls fetch_body, the sleep-need part of fetch_sleep and the  *)
(* banding of fetch_stress on their own, by value: fetch_body on every     *)
(* combination of its six responses, the other two on ranges of integers.  *)
(***************************************************************************)
EXTENDS Integers, Sequences, FiniteSets, TLC

VARIABLES
    pc,         \* position of the control flow
    exitCode,   \* process exit status: <<>> while running, <<0>> or <<1>>
    args,       \* parsed command line
    days,       \* main: the days to sync, as built (before sorted())
    dayIdx,     \* main: index into sorted(days) of the next day
    attempt,    \* authenticate: loop variable of range(5)
    lastExc,    \* authenticate: last_exc (<<>> is None)
    session,    \* the client returned by authenticate (<<>> before)
    stderr,     \* messages printed to stderr, in order
    day,        \* sync_day: its day argument
    fpos,       \* sync_day: index of the next fetcher to call
    sections,   \* sync_day: the list sections
    files,      \* output_dir: date -> file content (<<>>: no such file)
    dirExists,  \* whether output_dir exists
    upstream,   \* the remote service: date -> fetcher -> response shape
    log,        \* history of the run: calls, sleeps, writes, in order
    runs,       \* number of runs started so far
    diskAtStart, \* history: files and dirExists as the current run found them
    unit        \* a fetcher called on its own: its input and what it returned

vars == <<pc, exitCode, args, days, dayIdx, attempt, lastExc, session, stderr,
          day, fpos, sections, files, dirExists, upstream, log, runs,
          diskAtStart, unit>>

progVars == <<pc, exitCode, args, days, dayIdx, attempt, lastExc, session, stderr,
              day, fpos, sections, files, dirExists, upstream, log, runs,
              diskAtStart>>

authVars == <<attempt, lastExc, session>>
dayVars == <<day, fpos, sections>>
diskVars == <<files, dirExists>>

-----------------------------------------------------------------------------
(* Bounds of the model *)

MaxDays == 3
MaxRuns == 2
MaxSleepNeed == 2000
MaxStress == 100

(* date.today() of the modelled run *)
Today == 10

Dates == (Today - MaxDays)..Today

-----------------------------------------------------------------------------
(* authenticate *)

MaxAttempts == 5
LastRetryIndex == 4
BackoffUnit == 2

None == <<>>
Some(x) == <<x>>

ExcClasses == {"FileNotFoundError", "Exception"}
\* what str(e).lower() contains, as far as authenticate looks at it
Messages == {"no profile", "connectapi", "401", "other"}
LoginErrors == [ok : {FALSE}, cls : ExcClasses, msg : Messages]
LoginOk == [ok |-> TRUE, cls |-> "-", msg |-> "-"]
LoginOutcomes == {LoginOk} \cup LoginErrors

NoOutcome == [ok |-> FALSE, cls |-> "-", msg |-> "-"]

\* one entry of the history; a login carries what client.login did
Ev(op, d, a) == [op |-> op, day |-> d, arg |-> a, res |-> NoOutcome]
EvLogin(k, o) == [op |-> "login", day |-> 0, arg |-> k, res |-> o]

\* no fetcher is being called on its own
NoCall == [fn |-> "-", in |-> <<>>, done |-> FALSE, out |-> <<>>]

\* get_token_dir: explicit override > environment > per-email directory > default
get_token_dir(a) ==
    IF a.tokenDir THEN "arg"
    ELSE IF a.envTokenDir THEN "env"
    ELSE IF a.email THEN "default/email"
    ELSE "default"

\* the setup command the messages of authenticate show: --token-dir is added
\* when token_dir != DEFAULT_TOKEN_DIR and not email
SetupCmd(a) ==
    [email |-> a.email,
     tokenDirFlag |-> (get_token_dir(a) # "default" /\ ~a.email)]

\* "no profile" in str(e).lower()
IsNoProfile(e) == e.msg = "no profile"

RetryableAlways(att, e) == IsNoProfile(e)

RetryableAny(att, e) == att < LastRetryIndex

\* line 123: attempt < 4 and "no profile" in str(e).lower()
Retryable(att, e) == att < LastRetryIndex /\ IsNoProfile(e)

BackoffSecsConstant(att) == BackoffUnit

\* line 124: time.sleep(2 * (attempt + 1))
BackoffSecs(att) == BackoffUnit * (att + 1)

\* lines 128-155: the guidance chosen from the last error's message
Guidance(e) ==
    IF e.msg \in {"no profile", "connectapi"} THEN "rate_limited"
    ELSE IF e.msg = "401" THEN "unauthorized"
    ELSE "unknown"

ExitContinues(code) ==
    /\ pc' = "loop"
    /\ exitCode' = Some(code)

\* sys.exit(code)
Exit(code) ==
    /\ pc' = "exited"
    /\ exitCode' = Some(code)

\* one iteration of the loop of authenticate up to its sleep: client.login and
\* the except clauses
Login ==
    /\ pc = "auth_try"
    /\ \E o \in LoginOutcomes :
        /\ log' = Append(log, EvLogin(attempt + 1, o))
        /\ IF o.ok
           THEN /\ session' = Some("client")
                /\ pc' = "loop"
                /\ UNCHANGED <<exitCode, lastExc, stderr>>
           ELSE IF o.cls = "FileNotFoundError"
           THEN /\ stderr' = Append(stderr, [kind |-> "no_tokens", cmd |-> SetupCmd(args)])
                /\ Exit(1)
                /\ UNCHANGED <<lastExc, session>>
           ELSE /\ lastExc' = Some(o)
                /\ pc' = IF Retryable(attempt, o) THEN "auth_sleep" ELSE "auth_fail"
                /\ UNCHANGED <<exitCode, session, stderr>>
    /\ UNCHANGED <<args, days, dayIdx, attempt, dayVars, diskVars, upstream, runs, diskAtStart, unit>>

\* time.sleep(2 * (attempt + 1)); continue
Backoff ==
    /\ pc = "auth_sleep"
    /\ log' = Append(log, Ev("sleep", 0, BackoffSecs(attempt)))
    /\ attempt' = attempt + 1
    /\ pc' = IF attempt + 1 < MaxAttempts THEN "auth_try" ELSE "auth_fail"
    /\ UNCHANGED <<exitCode, args, days, dayIdx, lastExc, session, stderr,
                   dayVars, diskVars, upstream, runs, diskAtStart, unit>>

\* lines 128-155: after the loop, print the guidance and sys.exit(1)
AuthFail ==
    /\ pc = "auth_fail"
    /\ stderr' = Append(stderr, [kind |-> Guidance(lastExc[1]), cmd |-> SetupCmd(args)])
    /\ Exit(1)
    /\ UNCHANGED <<args, days, dayIdx, authVars, dayVars, diskVars, upstream, log, runs, diskAtStart, unit>>

-----------------------------------------------------------------------------
(* the fetchers *)

Shapes == {"raise", "empty", "junk", "ok"}
Unknown == "unknown"

NoneR == [kind |-> "none", h |-> "", fields |-> {}]
ExcR == [kind |-> "exception", h |-> "AttributeError", fields |-> {}]
Frag(h, fs) == [kind |-> "fragment", h |-> h, fields |-> fs]

OnRemoteErrorPropagates == ExcR

\* except Exception as e: ... return None   (around the client call only)
OnRemoteError == NoneR

\* data.get(...) and the like on a response that is no mapping, outside any try
OnShapeDrift == ExcR

\* lines 178-248
fetch_sleep(s) ==
    IF s = "raise" THEN OnRemoteError
    ELSE IF s = "junk" THEN OnShapeDrift          \* data.get on a list
    ELSE IF s = "empty" THEN NoneR                \* not daily
    ELSE Frag("## Sleep", {})

\* lines 251-301
fetch_lifestyle(s) ==
    IF s = "raise" THEN OnRemoteError
    ELSE IF s = "empty" THEN NoneR                \* not data
    ELSE IF s = "junk" THEN OnShapeDrift          \* data.get on a list
    ELSE Frag("## Lifestyle", {})

\* what a try block of fetch_body that only stores the response leaves in its
\* variable: None after an exception, the response otherwise
Stored(s) == IF s = "raise" THEN "None" ELSE s

TruthyNever(v) == FALSE

\* truth value of a stored response
Truthy(v) == v \in {"junk", "ok"}

\* what a try block of fetch_body that also extracts its value leaves: the
\* value when the response is well-formed, None otherwise (an empty response
\* is skipped, an exception of the call or of the extraction is caught)
Extracted(s) == IF s = "ok" THEN "value" ELSE "None"

\* lines 304-442; sum, hr, bb, hv, sp, wt: the responses of get_user_summary,
\* get_heart_rates, get_body_battery, get_hrv_data, get_spo2_data and
\* get_daily_weigh_ins
fetch_body(sum, hr, bb, hv, sp, wt) ==
    LET summary == Stored(sum)
        hr_data == Stored(hr)
        battery == Extracted(bb)
        hrv     == Extracted(hv)
        spo2    == Extracted(sp)
        weight  == Extracted(wt)
    IN  IF ~Truthy(summary) /\ ~Truthy(hr_data) /\ battery = "None" /\ hrv = "None"
        THEN NoneR
        ELSE IF summary = "junk" THEN OnShapeDrift        \* summary.get, line 388
        ELSE IF hr_data = "junk" THEN OnShapeDrift        \* hr_data.get, line 418
        ELSE Frag("## Body",
                  (IF summary = "ok" THEN {"steps", "calories", "distance", "floors"} ELSE {})
                  \cup (IF hr_data = "ok" THEN {"resting_hr", "max_hr"} ELSE {})
                  \cup (IF battery # "None" THEN {"battery"} ELSE {})
                  \cup (IF hrv # "None" THEN {"hrv"} ELSE {})
                  \cup (IF spo2 # "None" THEN {"spo2"} ELSE {})
                  \cup (IF weight # "None" THEN {"weight"} ELSE {}))

\* lines 445-470
fetch_stress(s) ==
    IF s = "raise" THEN OnRemoteError
    ELSE IF s = "empty" THEN NoneR
    ELSE IF s = "junk" THEN OnShapeDrift          \* data.get on a list
    ELSE Frag("## Stress", {})

\* lines 473-498
fetch_training_readiness(s) ==
    IF s = "raise" THEN OnRemoteError
    ELSE IF s = "empty" THEN NoneR                \* not data
    ELSE IF s = "junk" THEN OnShapeDrift          \* data[0].get on a string
    ELSE Frag("## Training Readiness", {})

\* lines 501-528
fetch_respiration(s) ==
    IF s = "raise" THEN OnRemoteError
    ELSE IF s = "empty" THEN NoneR
    ELSE IF s = "junk" THEN OnShapeDrift
    ELSE Frag("## Respiration", {})

\* lines 531-555
fetch_fitness_age(s) ==
    IF s = "raise" THEN OnRemoteError
    ELSE IF s = "empty" THEN NoneR
    ELSE IF s = "junk" THEN OnShapeDrift
    ELSE Frag("## Fitness Age", {})

\* lines 558-589
fetch_intensity_minutes(s) ==
    IF s = "raise" THEN OnRemoteError
    ELSE IF s = "empty" THEN NoneR
    ELSE IF s = "junk" THEN OnShapeDrift
    ELSE Frag("## Intensity Minutes", {})

\* lines 592-702
fetch_activities(s) ==
    IF s = "raise" THEN OnRemoteError
    ELSE IF s = "empty" THEN NoneR                \* not activities
    ELSE IF s = "junk" THEN OnShapeDrift          \* act.get on a string
    ELSE Frag("## Activities", {})

\* line 224: "less than 24 hours in minutes"
MinutesLimit == 1440

\* fmt_duration (lines 158-165) of a number of seconds that is not None: the
\* hours and minutes of "{hours}h {minutes:02d}m"
fmt_duration(seconds) ==
    LET total_minutes == seconds \div 60
    IN  [hours |-> total_minutes \div 60, minutes |-> total_minutes % 60]

\* truth value of what dict.get returned: <<>> is None, <<0>> is 0
IsTruthy(x) == x # None /\ x[1] # 0

\* a or b or c
Or3(a, b, c) == IF IsTruthy(a) THEN a ELSE IF IsTruthy(b) THEN b ELSE c

\* lines 215-230 of fetch_sleep: the "Sleep Need" line for daily["sleepNeed"],
\* which is a number (isDict FALSE, num) or a mapping that may hold actual,
\* value and duration; None when no line is added
sleep_need_line(sleep_need) ==
    IF sleep_need.isDict
    THEN LET val == Or3(sleep_need.actual, sleep_need.value, sleep_need.duration)
         IN  IF val # None
             THEN Some(fmt_duration(IF val[1] < MinutesLimit THEN val[1] * 60 ELSE val[1]))
             ELSE None
    ELSE IF sleep_need.num # 0
         THEN Some(fmt_duration(sleep_need.num))
         ELSE None

RestBelow == 26
LowBelow == 51
MediumBelow == 76

StressLevelInclusive(avg) ==
    IF avg <= RestBelow THEN "Rest"
    ELSE IF avg <= LowBelow THEN "Low"
    ELSE IF avg <= MediumBelow THEN "Medium"
    ELSE "High"

\* lines 461-468
StressLevel(avg) ==
    IF avg < RestBelow THEN "Rest"
    ELSE IF avg < LowBelow THEN "Low"
    ELSE IF avg < MediumBelow THEN "Medium"
    ELSE "High"

\* lines 457-470 of fetch_stress on a response that is a non-empty mapping:
\* avg is data.get("overallStressLevel")
stress_section(avg) ==
    IF avg = None THEN NoneR
    ELSE [kind |-> "fragment", h |-> "## Stress", fields |-> {StressLevel(avg[1])},
          avg |-> avg[1]]

NumFetchersShort == 9 - 1

\* the fetcher calls of sync_day, lines 712-746
NumFetchers == 9
Fetchers == 1..NumFetchers

\* the header of each fetcher's fragment, in the order sync_day calls them
Headers ==
    <<"## Sleep", "## Lifestyle", "## Body", "## Stress", "## Training Readiness",
      "## Respiration", "## Fitness Age", "## Intensity Minutes", "## Activities">>

\* the i-th call of sync_day (lines 712-746) on a day whose response has shape
\* s; the six endpoints of fetch_body answer alike
CallOrder(i, s) ==
    CASE i = 1 -> fetch_sleep(s)
      [] i = 2 -> fetch_lifestyle(s)
      [] i = 3 -> fetch_body(s, s, s, s, s, s)
      [] i = 4 -> fetch_stress(s)
      [] i = 5 -> fetch_training_readiness(s)
      [] i = 6 -> fetch_respiration(s)
      [] i = 7 -> fetch_fitness_age(s)
      [] i = 8 -> fetch_intensity_minutes(s)
      [] i = 9 -> fetch_activities(s)

-----------------------------------------------------------------------------
(* sync_day *)

Section(h, fs, d) == [h |-> h, fields |-> fs, day |-> d]

\* sections = [f"# Health - {display_date}"]
Title(d) == Section("# Health", {}, d)

\* a file some earlier run left, with content this run would not write
OldFile(d) == <<Section("# Health (old)", {}, d)>>

\* "if sleep:" and the like: a fragment is kept when it is a non-empty string
Kept(r) == r.kind = "fragment" /\ r.h # ""

ShouldSkipNever(secs) == FALSE

\* line 748: len(sections) == 1
ShouldSkip(secs) == Len(secs) = 1

WriteTextAppends(old, secs) == old \o secs

\* line 754: output_file.write_text(...) replaces the file's content
WriteText(old, secs) == secs

AddSectionFirst(secs, r, d) == <<secs[1], Section(r.h, r.fields, d)>> \o Tail(secs)

\* sections.append(fragment)
AddSection(secs, r, d) == Append(secs, Section(r.h, r.fields, d))

\* one call of a fetcher and the "if x: sections.append(x)" after it; an
\* exception the fetcher lets through ends the process with a traceback
CallFetcher ==
    /\ pc = "fetch"
    /\ \E s \in Shapes :
        /\ upstream[day][fpos] \in {Unknown, s}
        /\ upstream' = [upstream EXCEPT ![day][fpos] = s]
        /\ log' = Append(log, Ev("fetch", day, fpos))
        /\ LET r == CallOrder(fpos, s)
           IN  IF r.kind = "exception"
               THEN /\ stderr' = Append(stderr, [kind |-> "traceback", cmd |-> SetupCmd(args)])
                    /\ Exit(1)
                    /\ UNCHANGED <<fpos, sections>>
               ELSE /\ sections' = IF Kept(r) THEN AddSection(sections, r, day) ELSE sections
                    /\ fpos' = fpos + 1
                    /\ pc' = IF fpos = NumFetchers THEN "finish" ELSE "fetch"
                    /\ UNCHANGED <<exitCode, stderr>>
    /\ UNCHANGED <<args, days, dayIdx, authVars, day, diskVars, runs, diskAtStart, unit>>

\* lines 748-755: skip the day, or mkdir and write the file; then return to
\* the loop of main
FinishDay ==
    /\ pc = "finish"
    /\ IF ShouldSkip(sections)
       THEN /\ log' = Append(log, Ev("skip", day, 0))
            /\ UNCHANGED diskVars
       ELSE /\ dirExists' = TRUE
            /\ files' = [files EXCEPT ![day] = WriteText(files[day], sections)]
            /\ log' = Append(log, Ev("write", day, 0))
    /\ pc' = "loop"
    /\ dayIdx' = dayIdx + 1
    /\ UNCHANGED <<exitCode, args, days, authVars, stderr, dayVars, upstream, runs, diskAtStart, unit>>

-----------------------------------------------------------------------------
(* main *)

RECURSIVE Insert(_, _)
Insert(x, seq) ==
    IF seq = <<>> THEN <<x>>
    ELSE IF x <= Head(seq) THEN <<x>> \o seq
    ELSE <<Head(seq)>> \o Insert(x, Tail(seq))

NotSorted(seq) == seq

RECURSIVE Sorted(_)
\* sorted(days)
Sorted(seq) == IF seq = <<>> THEN <<>> ELSE Insert(Head(seq), Sorted(Tail(seq)))

\* [today - timedelta(days=i) for i in range(n)]
DaysBack(today, n) == [i \in 1..n |-> today - (i - 1)]

\* lines 796-806, for arguments that pass: --days when given and non-zero, else
\* --date, else today
SelectDays(a) ==
    IF a.days # None /\ a.days[1] # 0 THEN DaysBack(Today, a.days[1])
    ELSE IF a.date # None THEN <<a.date[1].date>>
    ELSE <<Today>>

\* date.fromisoformat(args.date) raises ValueError
DateIsInvalid(a) == ~(a.days # None /\ a.days[1] # 0) /\ a.date # None /\ ~a.date[1].ok

\* lines 795-809: choose the days, then call authenticate
MainSelectDays ==
    /\ pc = "main"
    /\ IF DateIsInvalid(args)
       THEN /\ stderr' = Append(stderr, [kind |-> "invalid_date", cmd |-> SetupCmd(args)])
            /\ Exit(1)
            /\ UNCHANGED <<days, attempt>>
       ELSE /\ days' = SelectDays(args)
            /\ attempt' = 0
            /\ pc' = "auth_try"
            /\ UNCHANGED <<exitCode, stderr>>
    /\ UNCHANGED <<args, dayIdx, lastExc, session, dayVars, diskVars, upstream, log, runs, diskAtStart, unit>>

\* lines 812-815: for day in sorted(days): sync_day(...); then print("Done.")
MainLoop ==
    /\ pc = "loop"
    /\ LET ds == Sorted(days)
       IN  IF dayIdx <= Len(ds)
           THEN /\ day' = ds[dayIdx]
                /\ fpos' = 1
                /\ sections' = <<Title(ds[dayIdx])>>
                /\ pc' = "fetch"
                /\ log' = Append(log, Ev("sync_day", ds[dayIdx], 0))
                /\ UNCHANGED exitCode
           ELSE /\ Exit(0)
                /\ log' = Append(log, Ev("done", 0, 0))
                /\ UNCHANGED dayVars
    /\ UNCHANGED <<args, days, dayIdx, authVars, stderr, diskVars, upstream, runs, diskAtStart, unit>>

\* the same command run once more after the process has ended, its login
\* succeeding at once: the run is taken up where its loop starts
Rerun ==
    /\ pc = "exited"
    /\ runs < MaxRuns
    /\ session # None
    /\ runs' = runs + 1
    /\ pc' = "loop"
    /\ dayIdx' = 1
    /\ exitCode' = None
    /\ stderr' = <<>>
    /\ log' = <<EvLogin(1, LoginOk)>>
    /\ diskAtStart' = [files |-> files, dirExists |-> dirExists]
    /\ UNCHANGED <<args, days, authVars, dayVars, diskVars, upstream, unit>>

-----------------------------------------------------------------------------
(* the specifications *)

DateArgs == {None, Some([ok |-> FALSE, date |-> 0]), Some([ok |-> TRUE, date |-> Today - 1])}
DaysArgs == {None} \cup {Some(n) : n \in (-1)..MaxDays}

NoFiles == [d \in Dates |-> <<>>]
NothingKnown == [d \in Dates |-> [f \in Fetchers |-> Unknown]]

\* the responses of one day that the whole-program specification draws from
AllAlike(s) == [f \in Fetchers |-> s]
JunkAt(k) == [f \in Fetchers |-> IF f = k THEN "junk" ELSE "ok"]
RaiseAt(k) == [f \in Fetchers |-> IF f = k THEN "raise" ELSE "ok"]
DayWorlds ==
    {AllAlike("ok"), AllAlike("empty"), AllAlike("raise"), RaiseAt(1), JunkAt(4), JunkAt(9)}

\* the whole program: one run of main in sync mode
Init ==
    /\ pc = "main"
    /\ exitCode = None
    /\ args \in [days : DaysArgs, date : DateArgs,
                 email : {FALSE}, tokenDir : {FALSE}, envTokenDir : {FALSE}]
    /\ days = <<>>
    /\ dayIdx = 1
    /\ attempt = 0
    /\ lastExc = None
    /\ session = None
    /\ stderr = <<>>
    /\ day = 0
    /\ fpos = 0
    /\ sections = <<>>
    /\ files = NoFiles
    /\ dirExists = FALSE
    /\ upstream \in [Dates -> DayWorlds \cup {AllAlike(Unknown)}]
    /\ \A d \in Dates :
        upstream[d] = AllAlike(Unknown) <=>
            (DateIsInvalid(args) \/ \A i \in 1..Len(SelectDays(args)) : SelectDays(args)[i] # d)
    /\ log = <<>>
    /\ runs = 1
    /\ diskAtStart = [files |-> files, dirExists |-> dirExists]
    /\ unit = NoCall

Next ==
    \/ MainSelectDays
    \/ Login
    \/ Backoff
    \/ AuthFail
    \/ MainLoop
    \/ CallFetcher
    \/ FinishDay

Spec == Init /\ [][Next]_vars

\* authenticate alone, called with every combination of the arguments its
\* messages depend on
InitAuth ==
    /\ pc = "auth_try"
    /\ exitCode = None
    /\ args \in [days : {None}, date : {None},
                 email : BOOLEAN, tokenDir : BOOLEAN, envTokenDir : BOOLEAN]
    /\ days = <<Today>>
    /\ dayIdx = 1
    /\ attempt = 0
    /\ lastExc = None
    /\ session = None
    /\ stderr = <<>>
    /\ day = 0
    /\ fpos = 0
    /\ sections = <<>>
    /\ files = NoFiles
    /\ dirExists = FALSE
    /\ upstream = NothingKnown
    /\ log = <<>>
    /\ runs = 1
    /\ diskAtStart = [files |-> files, dirExists |-> dirExists]
    /\ unit = NoCall

NextAuth ==
    \/ Login
    \/ Backoff
    \/ AuthFail

SpecAuth == InitAuth /\ [][NextAuth]_vars

FairSpecAuth == SpecAuth /\ WF_vars(NextAuth)

\* sync_day on one day, against every combination of the nine responses, run
\* again against the same responses; main was started with --date and has
\* authenticated
InitDay ==
    /\ pc = "loop"
    /\ exitCode = None
    /\ args = [days |-> None, date |-> Some([ok |-> TRUE, date |-> Today - 1]),
               email |-> FALSE, tokenDir |-> FALSE, envTokenDir |-> FALSE]
    /\ days = SelectDays(args)
    /\ dayIdx = 1
    /\ attempt = 0
    /\ lastExc = None
    /\ session = Some("client")
    /\ stderr = <<>>
    /\ day = 0
    /\ fpos = 0
    /\ sections = <<>>
    /\ \/ files = NoFiles /\ dirExists = FALSE
       \/ files = [d \in Dates |-> IF d >= Today - 1 THEN OldFile(d) ELSE <<>>] /\ dirExists = TRUE
    /\ upstream = NothingKnown
    /\ log = <<EvLogin(1, LoginOk)>>
    /\ runs = 1
    /\ diskAtStart = [files |-> files, dirExists |-> dirExists]
    /\ unit = NoCall

NextDay ==
    \/ MainLoop
    \/ CallFetcher
    \/ FinishDay
    \/ Rerun

SpecDay == InitDay /\ [][NextDay]_vars

\* the fetchers called on their own, each on every input of a bounded set
BodyInputs == [sum : Shapes, hr : Shapes, bb : Shapes, hv : Shapes, sp : Shapes, wt : Shapes]

SleepNeedValues == 0..MaxSleepNeed
OtherKeyValues == {None, Some(0), Some(MinutesLimit)}
SleepNeedInputs ==
    [isDict : {FALSE}, num : SleepNeedValues, actual : {None}, value : {None}, duration : {None}]
    \cup [isDict : {TRUE}, num : {0}, actual : {Some(v) : v \in SleepNeedValues},
          value : OtherKeyValues, duration : OtherKeyValues]
    \cup [isDict : {TRUE}, num : {0}, actual : OtherKeyValues,
          value : {Some(v) : v \in SleepNeedValues}, duration : OtherKeyValues]
    \cup [isDict : {TRUE}, num : {0}, actual : OtherKeyValues,
          value : OtherKeyValues, duration : {Some(v) : v \in SleepNeedValues}]

StressValues == {None} \cup {Some(v) : v \in (0 - 2)..MaxStress}

Call(fn, x) == [fn |-> fn, in |-> x, done |-> FALSE, out |-> <<>>]

InitFetch ==
    /\ pc = "unit"
    /\ exitCode = None
    /\ args = [days |-> None, date |-> None,
               email |-> FALSE, tokenDir |-> FALSE, envTokenDir |-> FALSE]
    /\ days = <<Today>>
    /\ dayIdx = 1
    /\ attempt = 0
    /\ lastExc = None
    /\ session = Some("client")
    /\ stderr = <<>>
    /\ day = Today
    /\ fpos = 0
    /\ sections = <<>>
    /\ files = NoFiles
    /\ dirExists = FALSE
    /\ upstream = NothingKnown
    /\ log = <<>>
    /\ runs = 1
    /\ diskAtStart = [files |-> files, dirExists |-> dirExists]
    /\ unit \in {Call("fetch_body", x) : x \in BodyInputs}
                \cup {Call("sleep_need", x) : x \in SleepNeedInputs}
                \cup {Call("fetch_stress", x) : x \in StressValues}

Return(r) ==
    /\ unit' = [unit EXCEPT !.done = TRUE, !.out = r]
    /\ UNCHANGED progVars

CallFetchBody ==
    /\ pc = "unit"
    /\ unit.fn = "fetch_body"
    /\ ~unit.done
    /\ Return(fetch_body(unit.in.sum, unit.in.hr, unit.in.bb, unit.in.hv, unit.in.sp, unit.in.wt))

CallSleepNeed ==
    /\ pc = "unit"
    /\ unit.fn = "sleep_need"
    /\ ~unit.done
    /\ Return(sleep_need_line(unit.in))

CallFetchStress ==
    /\ pc = "unit"
    /\ unit.fn = "fetch_stress"
    /\ ~unit.done
    /\ Return(stress_section(unit.in))

NextFetch ==
    \/ CallFetchBody
    \/ CallSleepNeed
    \/ CallFetchStress

SpecFetch == InitFetch /\ [][NextFetch]_vars


-----------------------------------------------------------------------------
(* what the properties below read off a state *)

Logins == SelectSeq(log, LAMBDA e : e.op = "login")
Sleeps == SelectSeq(log, LAMBDA e : e.op = "sleep")
AuthLog == SelectSeq(log, LAMBDA e : e.op \in {"login", "sleep"})
SleepSecs == [i \in 1..Len(Sleeps) |-> Sleeps[i].arg]

\* a login failure that is classified transient: not a FileNotFoundError, and
\* its message contains 'no profile'
IsTransient(o) == ~o.ok /\ o.cls = "Exception" /\ o.msg = "no profile"
AllTransient(L) == \A i \in 1..Len(L) : IsTransient(L[i].res)

HasEvent(op, d) == \E i \in 1..Len(log) : log[i].op = op /\ log[i].day = d
HasFetch(d, f) == \E i \in 1..Len(log) : log[i] = Ev("fetch", d, f)
HasTraceback == \E i \in 1..Len(stderr) : stderr[i].kind = "traceback"

\* sync_day has returned for the one day of SpecDay
DayReturned ==
    \/ pc = "loop" /\ dayIdx = 2
    \/ pc = "exited" /\ exitCode = Some(0)

OkSeq(d) == SelectSeq([f \in Fetchers |-> f], LAMBDA f : upstream[d][f] = "ok")
ExpectedHeaders(d) == <<"# Health">> \o [i \in 1..Len(OkSeq(d)) |-> Headers[OkSeq(d)[i]]]
HeadersOf(doc) == [i \in 1..Len(doc) |-> doc[i].h]
InDoc(doc, f) == \E i \in 1..Len(doc) : doc[i].h = Headers[f]
WrittenByRun(d) == files[d] # <<>> /\ files[d] # OldFile(d)

SyncDayEvents == SelectSeq(log, LAMBDA e : e.op = "sync_day")
Processed == [i \in 1..Len(SyncDayEvents) |-> SyncDayEvents[i].day]

\* the dates the arguments ask for, oldest first
Target(a) ==
    IF a.days # None /\ a.days[1] >= 1
    THEN [i \in 1..a.days[1] |-> Today - a.days[1] + i]
    ELSE IF a.date # None THEN <<a.date[1].date>>
    ELSE <<Today>>

-----------------------------------------------------------------------------
(* authenticate: C1, C2, C3 *)

\* C1: when the first N login calls (0 <= N <= 4) fail with a transient error,
\* authenticate has not given up and goes on to call N+1; when call N+1
\* succeeds it returns the session after exactly N+1 login calls and exactly N
\* sleeps, the i-th sleep lasting 2*i and lying between login i and login i+1.
C1_TransientThenSuccess ==
    LET L == Logins
        A == AuthLog
        n == Len(L) - 1
    IN  /\ (Len(L) <= 4 /\ AllTransient(L)) =>
                /\ pc \in {"auth_try", "auth_sleep"}
                /\ exitCode = None
        /\ (Len(L) >= 1 /\ L[Len(L)].res.ok /\ AllTransient(SubSeq(L, 1, n))) =>
                /\ n \in 0..4
                /\ session = Some("client")
                /\ exitCode = None
                /\ Len(A) = 2 * n + 1
                /\ \A i \in 1..n :
                      /\ A[2 * i - 1].op = "login" /\ A[2 * i - 1].arg = i
                      /\ A[2 * i].op = "sleep" /\ A[2 * i].arg = 2 * i
                /\ A[2 * n + 1].op = "login" /\ A[2 * n + 1].arg = n + 1

C1_Witness ==
    /\ session = Some("client")
    /\ Len(Logins) = 5
    /\ SleepSecs = <<2, 4, 6, 8>>

\* C2: a login failure that is not transient-classified (a FileNotFoundError
\* whatever its message, or an error without 'no profile') is the last thing
\* authenticate tries: no login and no sleep follows it, no session is
\* returned, and the run ends with exit status 1.
C2_TerminalErrorsNotRetried ==
    LET A == AuthLog
    IN  \A i \in 1..Len(A) :
            (A[i].op = "login" /\ ~A[i].res.ok /\ ~IsTransient(A[i].res)) =>
                /\ i = Len(A)
                /\ session = None
                /\ pc \in {"auth_fail", "exited"}
                /\ pc = "auth_fail" => ENABLED AuthFail
                /\ pc = "exited" => exitCode = Some(1)

C2_Witness ==
    /\ pc = "exited"
    /\ exitCode = Some(1)
    /\ Len(Logins) = 3
    /\ Logins[3].res.cls = "FileNotFoundError"
    /\ Len(Sleeps) = 2

C3_Bounded ==
    LET L == Logins
        A == AuthLog
    IN  /\ Len(L) <= 5
        /\ Len(Sleeps) <= 4
        /\ (Len(L) = 5 /\ AllTransient(L)) =>
                /\ SleepSecs = <<2, 4, 6, 8>>
                /\ A[Len(A)].op = "login"
                /\ session = None
                /\ pc \in {"auth_fail", "exited"}
                /\ pc = "exited" =>
                      /\ exitCode = Some(1)
                      /\ stderr[Len(stderr)].kind = "rate_limited"

\* C3: authenticate ends (it returns the session or the process exits) whatever
\* the login calls do, after at most 5 login calls and 4 sleeps; five transient
\* failures give the sleeps 2, 4, 6, 8, none after the fifth failure, no
\* session, and exit status 1 with the guidance for a temporary condition.
C3_AuthTerminates == []C3_Bounded /\ <>(pc \in {"loop", "exited"})

C3_Witness ==
    /\ pc = "exited"
    /\ Len(Logins) = 5
    /\ AllTransient(Logins)
    /\ Len(Sleeps) = 4

-----------------------------------------------------------------------------
(* the fetchers and sync_day: C4 .. C8 *)

\* C4: no fetcher lets an error through: whatever a call raises or returns,
\* the run goes on, so no traceback is printed and sync_day never ends the
\* process with a failure status.
C4_FetchersNeverPropagate ==
    /\ ~HasTraceback
    /\ pc = "exited" => exitCode = Some(0)

\* C5: a fetcher whose remote call raises leaves the sections as they are and
\* sync_day goes on to the next fetcher; once sync_day has returned, all nine
\* fetchers were called, the file holds the section of every fetcher that had
\* data and of no fetcher whose call raised, and it was written if any fetcher
\* had data.
C5_RaiseIsIsolated ==
    /\ [][(pc = "fetch" /\ upstream'[day][fpos] = "raise") =>
            /\ pc' \in {"fetch", "finish"}
            /\ fpos' = fpos + 1
            /\ sections' = sections
            /\ exitCode' = None]_vars
    /\ [](DayReturned =>
            LET d == days[1]
            IN  /\ \A f \in Fetchers : HasFetch(d, f)
                /\ \A f \in Fetchers : upstream[d][f] = "ok" => InDoc(files[d], f)
                /\ \A f \in Fetchers : upstream[d][f] = "raise" => ~InDoc(files[d], f)
                /\ OkSeq(d) # <<>> => HasEvent("write", d) /\ WrittenByRun(d))

C5_Witness ==
    /\ DayReturned
    /\ upstream[days[1]][1] = "raise"
    /\ upstream[days[1]][2] = "ok"
    /\ upstream[days[1]][5] = "raise"
    /\ upstream[days[1]][9] = "ok"
    /\ InDoc(files[days[1]], 2)
    /\ InDoc(files[days[1]], 9)

\* C6: when all nine fetchers have returned no data, the end of sync_day changes
\* neither a file nor the directory and reports the skip; and no file ever
\* consists of the title alone.
C6_NoDataTouchesNothing ==
    /\ [][(pc = "finish" /\ \A f \in Fetchers : upstream[day][f] \in {"raise", "empty"}) =>
            /\ files' = files
            /\ dirExists' = dirExists
            /\ log' = Append(log, Ev("skip", day, 0))]_vars
    /\ [](\A d \in Dates : files[d] # <<Title(d)>>)

C6_Witness ==
    /\ pc = "loop"
    /\ dayIdx = 2
    /\ log[Len(log)] = Ev("skip", days[1], 0)
    /\ files[days[1]] = OldFile(days[1])
    /\ \E f \in Fetchers : upstream[days[1]][f] = "raise"
    /\ \E f \in Fetchers : upstream[days[1]][f] = "empty"

\* C7: the sections sync_day has collected when it comes to write, and every
\* file it has written, are the title followed by the fragments of exactly the
\* fetchers that had data, each once, in the order sleep, lifestyle, body,
\* stress, training readiness, respiration, fitness age, intensity minutes,
\* activities; and a day with a fragment is written.
C7_FixedSectionOrder ==
    /\ pc = "finish" => HeadersOf(sections) = ExpectedHeaders(day)
    /\ \A d \in Dates : WrittenByRun(d) =>
            /\ HeadersOf(files[d]) = ExpectedHeaders(d)
            /\ \A i \in 1..Len(files[d]) : files[d][i].day = d
    /\ (DayReturned /\ OkSeq(days[1]) # <<>>) => WrittenByRun(days[1])

C7_Witness ==
    /\ DayReturned
    /\ HeadersOf(files[days[1]]) = <<"# Health", "## Lifestyle", "## Stress", "## Activities">>
    /\ upstream[days[1]][1] = "empty"
    /\ upstream[days[1]][3] = "raise"

\* C8: a run never changes the file of another day, and a second run against
\* the same responses leaves every file, and the directory, exactly as the
\* first run left them: the day's file is replaced by the same content.
C8_Idempotent ==
    /\ \A d \in Dates : d # days[1] => files[d] = diskAtStart.files[d]
    /\ runs >= 2 =>
            /\ files = diskAtStart.files
            /\ dirExists = diskAtStart.dirExists

C8_Witness ==
    /\ runs = 2
    /\ pc = "loop"
    /\ dayIdx = 2
    /\ log[Len(log)] = Ev("write", days[1], 0)
    /\ Len(files[days[1]]) >= 3

-----------------------------------------------------------------------------
(* main: C9, C10 *)

ArgsInScope == args.days = None \/ args.days[1] >= 0

\* C9: the days sync_day is called for are, in order, a prefix of the dates the
\* arguments ask for, oldest first (the N most recent dates for --days N, the
\* given date, or today); a call for a later day starts only after the write or
\* skip of the day before; and a run that reaches the end of the loop has
\* called sync_day for each of them exactly once.
C9_DaysAscendingOnce ==
    ArgsInScope =>
        LET P == Processed
            T == Target(args)
        IN  /\ Len(P) <= Len(T)
            /\ \A i \in 1..Len(P) : P[i] = T[i]
            /\ \A i \in 1..Len(log) :
                  (log[i].op = "sync_day" /\ log[i].day # T[1]) =>
                      \/ log[i - 1] = Ev("write", log[i].day - 1, 0)
                      \/ log[i - 1] = Ev("skip", log[i].day - 1, 0)
            /\ (pc = "exited" /\ exitCode = Some(0)) => P = T

C9_Witness ==
    /\ pc = "exited"
    /\ exitCode = Some(0)
    /\ args.days = Some(3)
    /\ Processed = <<Today - 2, Today - 1, Today>>

\* C10: a run whose arguments were accepted exits with a non-zero status
\* exactly when authentication failed; a run that authenticated ends only
\* after every selected day was written or skipped, whatever the fetchers met.
C10_ExitCodeOnlyFromAuth ==
    (pc = "exited" /\ ~DateIsInvalid(args)) =>
        /\ exitCode = Some(1) <=> session = None
        /\ session # None =>
              \A i \in 1..Len(days) :
                  HasEvent("write", days[i]) \/ HasEvent("skip", days[i])

-----------------------------------------------------------------------------
(* main: C11 *)

FetcherWork == {"sync_day", "fetch", "write", "skip"}

\* C11: the login attempts of a run are numbered 1, 2, ... once (authenticate
\* is entered once) and at most one of them succeeds; every sync_day call,
\* fetcher call, write and skip comes after that successful login and works
\* with the session it returned; and while there is no session (authentication
\* has not succeeded, or has failed) no day is processed, no fetcher is called
\* and the output directory is as the run found it.
C11_AuthenticateOnceFirst ==
    LET L == Logins
        Work == {i \in 1..Len(log) : log[i].op \in FetcherWork}
    IN  /\ \A i \in 1..Len(L) : L[i].arg = i
        /\ Cardinality({i \in 1..Len(L) : L[i].res.ok}) <= 1
        /\ \A i \in Work :
              /\ session = Some("client")
              /\ \E j \in 1..(i - 1) : log[j].op = "login" /\ log[j].res.ok
        /\ pc \in {"fetch", "finish"} => session = Some("client")
        /\ session = None =>
              /\ Work = {}
              /\ Processed = <<>>
              /\ files = diskAtStart.files
              /\ dirExists = diskAtStart.dirExists

\* a run that failed to log in twice, then logged in, and synced two days
C11_Witness ==
    /\ pc = "exited"
    /\ exitCode = Some(0)
    /\ Len(Logins) = 3
    /\ Len(Processed) = 2
    /\ \E d \in Dates : HasEvent("write", d)

\* a run whose authentication failed and that has ended
C11_WitnessAuthFailed ==
    /\ pc = "exited"
    /\ session = None
    /\ Len(Logins) = MaxAttempts
    /\ Len(days) = 2

-----------------------------------------------------------------------------
(* fetch_body: C12 *)

\* the call or its response gave nothing: an exception or an empty container
Missing(s) == s \in {"raise", "empty"}

\* the fields a source adds to the Body section when its response is
\* well-formed
OwnFields(src) ==
    CASE src = "sum" -> {"steps", "calories", "distance", "floors"}
      [] src = "hr" -> {"resting_hr", "max_hr"}
      [] src = "bb" -> {"battery"}
      [] src = "hv" -> {"hrv"}
      [] src = "sp" -> {"spo2"}
      [] src = "wt" -> {"weight"}

BodySources == {"sum", "hr", "bb", "hv", "sp", "wt"}

\* C12: fetch_body returns None exactly when the summary and the heart-rate
\* response are missing and neither a body-battery value nor an HRV summary was
\* obtained, whatever SpO2 and weight returned; and when the summary and
\* heart-rate responses are each missing or well-formed and at least one of the
\* four is there, it returns a fragment whose fields are exactly those of the
\* sources that answered well: a source that failed or is missing removes its
\* own fields only.
C12_BodyInclusion ==
    (unit.fn = "fetch_body" /\ unit.done) =>
        LET x == unit.in
            r == unit.out
            allMissing ==
                Missing(x.sum) /\ Missing(x.hr) /\ x.bb # "ok" /\ x.hv # "ok"
        IN  /\ r.kind = "none" <=> allMissing
            /\ (x.sum # "junk" /\ x.hr # "junk" /\ ~allMissing) =>
                  /\ r.kind = "fragment"
                  /\ r.h = "## Body"
                  /\ \A src \in BodySources :
                        IF x[src] = "ok"
                        THEN OwnFields(src) \subseteq r.fields
                        ELSE OwnFields(src) \cap r.fields = {}

\* only the summary answered, SpO2 and weight failed: a section with the
\* summary's fields
C12_Witness ==
    /\ unit.fn = "fetch_body"
    /\ unit.done
    /\ unit.in = [sum |-> "ok", hr |-> "raise", bb |-> "empty", hv |-> "raise",
                  sp |-> "raise", wt |-> "empty"]
    /\ unit.out.kind = "fragment"

\* SpO2 and weight alone: no section
C12_WitnessSpo2Only ==
    /\ unit.fn = "fetch_body"
    /\ unit.done
    /\ unit.in.sp = "ok"
    /\ unit.in.wt = "ok"
    /\ unit.out.kind = "none"

-----------------------------------------------------------------------------
(* fetch_sleep, the sleep need: C13 *)

\* the raw value a sleepNeed carries: the number itself, or the first of
\* actual, value, duration that is neither missing nor zero (0 when there is
\* none)
RawSleepNeed(sn) ==
    IF ~sn.isDict THEN sn.num
    ELSE IF IsTruthy(sn.actual) THEN sn.actual[1]
    ELSE IF IsTruthy(sn.value) THEN sn.value[1]
    ELSE IF IsTruthy(sn.duration) THEN sn.duration[1]
    ELSE 0

\* the hours and minutes of a duration of s seconds
HoursMinutes(s) == [hours |-> s \div 3600, minutes |-> (s \div 60) % 60]

C13_HeuristicForMappings ==
    (unit.fn = "sleep_need" /\ unit.done /\ unit.in.isDict /\ RawSleepNeed(unit.in) # 0) =>
        LET v == RawSleepNeed(unit.in)
        IN  unit.out = Some(HoursMinutes(IF v < 1440 THEN v * 60 ELSE v))

\* a sleepNeed that is a bare number is shown as that many seconds
C13_NumberShownAsSeconds ==
    (unit.fn = "sleep_need" /\ unit.done /\ ~unit.in.isDict /\ unit.in.num # 0) =>
        unit.out = Some(HoursMinutes(unit.in.num))

\* sleepNeed is the number 480: shown as 0h 08m
C13_WitnessNumber ==
    /\ unit.fn = "sleep_need"
    /\ unit.done
    /\ ~unit.in.isDict
    /\ unit.in.num = 480
    /\ unit.out = Some([hours |-> 0, minutes |-> 8])

-----------------------------------------------------------------------------
(* fetch_stress: C14 *)

\* C14: fetch_stress on a response with average v returns a section labelled
\* Rest when v < 26, Low when 26 <= v <= 50, Medium when 51 <= v <= 75 and High
\* when v >= 76; 0 yields a section (Rest); only a missing value yields none.
C14_StressBands ==
    (unit.fn = "fetch_stress" /\ unit.done) =>
        LET r == unit.out
        IN  IF unit.in = None
            THEN r.kind = "none"
            ELSE LET v == unit.in[1]
                 IN  /\ r.kind = "fragment"
                     /\ r.h = "## Stress"
                     /\ r.avg = v
                     /\ r.fields =
                          {CASE v <= 25 -> "Rest"
                             [] v >= 26 /\ v <= 50 -> "Low"
                             [] v >= 51 /\ v <= 75 -> "Medium"
                             [] v >= 76 -> "High"}

\* an average of 0 is a section labelled Rest
C14_Witness ==
    /\ unit.fn = "fetch_stress"
    /\ unit.done
    /\ unit.in = Some(0)
    /\ unit.out.fields = {"Rest"}

-----------------------------------------------------------------------------
(* sync_day and main: C15 *)

\* C15: within a sync_day call the fetchers are called in order, each right
\* after the one before it and none twice; the day's write or skip comes once,
\* right after the ninth fetcher has returned, so that a day that was written
\* or skipped had each of the nine fetchers called exactly once and a written
\* document is never a partial one; and the sync_day call of a later day, and
\* with it its first fetcher call, comes only after the write or skip of the
\* day before.
C15_NineFetchersThenWrite ==
    /\ \A i \in 1..Len(log) :
          LET e == log[i]
          IN  /\ e.op = "fetch" =>
                    /\ e.arg \in 1..9
                    /\ i > 1
                    /\ log[i - 1] = (IF e.arg = 1 THEN Ev("sync_day", e.day, 0)
                                     ELSE Ev("fetch", e.day, e.arg - 1))
              /\ e.op \in {"write", "skip"} =>
                    /\ i > 9
                    /\ \A f \in 1..9 : log[i - 10 + f] = Ev("fetch", e.day, f)
              /\ e.op = "sync_day" =>
                    /\ i > 1
                    /\ \/ log[i - 1].op = "login"
                       \/ log[i - 1].op \in {"write", "skip"} /\ log[i - 1].day < e.day
              /\ e.op \in FetcherWork =>
                    \A j \in 1..Len(log) : log[j] = e => j = i
    /\ \A d \in Dates :
          files[d] # diskAtStart.files[d] =>
              /\ HasEvent("write", d)
              /\ \A f \in 1..9 : HasFetch(d, f)
              /\ files[d][1] = Title(d)
              /\ Len(files[d]) > 1
    /\ pc = "fetch" => \A f \in 1..9 : HasFetch(day, f) <=> f < fpos
    /\ pc = "finish" => \A f \in 1..9 : HasFetch(day, f)

\* a run over two days, one written and one skipped, each after its nine
\* fetcher calls
C15_Witness ==
    /\ pc = "exited"
    /\ exitCode = Some(0)
    /\ Len(Processed) = 2
    /\ HasEvent("write", Processed[1])
    /\ HasEvent("skip", Processed[2])
    /\ \A f \in 1..9 : HasFetch(Processed[1], f) /\ HasFetch(Processed[2], f)

====
